---- MODULE Spec2Model ----
(***************************************************************************)
(* Model of the three beancount-import sources fifththird, vanguard and    *)
(* wegmans: loading of the raw records, the scan of the journal for        *)
(* already imported keys, and the synthesis of the pending entries.        *)
(*                                                                         *)
(* Encoding of Python values:                                              *)
(*   None is the empty sequence <<>>, a present value v is <<v>>;          *)
(*   a date is its day number (an integer), timedelta(days=1) is 1;        *)
(*   a raw JSON amount is an integer number of thousandths, a Decimal      *)
(*   rounded to two places is an integer number of cents; a Decimal that   *)
(*   is not rounded is an integer number of thousandths, and a quotient    *)
(*   of Decimals is kept as the exact ratio of numerator and denominator;  *)
(*   a metadata dict is a function from its keys to its values, the        *)
(*   metadata of an entry that has none is the empty function.             *)
(***************************************************************************)
EXTENDS Integers, Sequences, FiniteSets, TLC

VARIABLES
    source,     \* which Source class is constructed
    dir,        \* TRUE: constructed with dir=..., FALSE: with filename=...
    files,      \* the raw input: a sequence of files, each a sequence of raw records
    session,    \* the download session the files were fetched in
    entries,    \* self.entries
    error,      \* the exception raised by the constructor or by prepare, or None
    journal,    \* journal.all_entries
    pending,    \* results.pending: the ImportResults of the last prepare
    accepted,   \* indices of pending whose entries were added to the journal
    run,        \* number of prepare calls so far
    pc          \* "new", "loaded", "failed", "prepared", "aborted"

vars == <<source, dir, files, session, entries, error, journal, pending, accepted, run, pc>>

---------------------------------------------------------------------------
(* Bounds of the model *)

MaxRecords == 2
MaxRuns == 2

---------------------------------------------------------------------------
(* Python values *)

None == <<>>
Some(v) == <<v>>
Get(o) == o[1]

Range(s) == {s[i] : i \in DOMAIN s}

\* the list left in read order
KeepOrder(s) == s

Reverse(s) == [i \in 1..Len(s) |-> s[Len(s) + 1 - i]]

\* dict.get(key): the value, or None
MetaGet(meta, key) == IF key \in DOMAIN meta THEN Some(meta[key]) ELSE None

\* list.sort(key=...): a stable ascending sort of <<key, item>> pairs
RECURSIVE InsertSorted(_, _)
InsertSorted(x, s) ==
    IF s = <<>> THEN <<x>>
    ELSE IF x[1] < Head(s)[1] THEN <<x>> \o s
    ELSE <<Head(s)>> \o InsertSorted(x, Tail(s))

RECURSIVE StableSort(_)
StableSort(s) ==
    IF s = <<>> THEN <<>>
    ELSE InsertSorted(s[Len(s)], StableSort(SubSeq(s, 1, Len(s) - 1)))

\* round(Decimal, 2) of a number of thousandths, in cents: ROUND_HALF_EVEN
Round2(mills) ==
    LET q == mills \div 10
        r == mills % 10
    IN  IF r < 5 THEN q
        ELSE IF r > 5 THEN q + 1
        ELSE IF q % 2 = 0 THEN q ELSE q + 1

Amount(number, currency) == [number |-> number, currency |-> currency]

\* amt(val): None for a falsy value (None, 0), else the amount rounded to cents
amt(val) ==
    IF val = None \/ Get(val) = 0 THEN None
    ELSE Some(Amount(Round2(Get(val)), "USD"))

\* date(val): None for a falsy value, else the parsed date
date(val) == IF val = None THEN None ELSE val

\* an exception: its message and its argument
Raise(msg, arg) == [raised |-> TRUE, msg |-> msg, arg |-> arg]
Return(value) == [raised |-> FALSE, value |-> value]

---------------------------------------------------------------------------
(* fifththird.py *)

\* a description that contains 'HAZ INS', one that contains 'TAXES'
HazInsDescriptions == {"HAZ INS DISB"}
TaxesDescriptions == {"COUNTY TAXES DISB"}

\* the fields of FifthThirdEntry that are copied to the metadata
FT_meta_fields ==
    {"posting_date", "transaction_id", "amount", "description", "transaction_code",
     "principal_amount", "escrow_amount", "interest_amount", "other_amount"}

FT_meta_key ==
    [posting_date |-> "fifththird_posting_date",
     transaction_id |-> "fifththird_transaction_id",
     amount |-> "fifththird_amount",
     description |-> "fifththird_description",
     transaction_code |-> "fifththird_transaction_code",
     principal_amount |-> "fifththird_principal_amount",
     escrow_amount |-> "fifththird_escrow_amount",
     interest_amount |-> "fifththird_interest_amount",
     other_amount |-> "fifththird_other_amount"]

\* json.loads(line) and the construction of one FifthThirdEntry raise
FT_line_raises(data) ==
    \/ ~data.decodable
    \/ \E f \in data.garbled : data[f] # None

FT_entry(data, lno, filename) ==
    [posting_date |-> date(data.postDate),
     transaction_id |-> data.id,
     amount |-> amt(data.amount),
     description |-> data.description,
     transaction_code |-> data.transactionCode,
     principal_amount |-> amt(data.principalAmount),
     escrow_amount |-> amt(data.escrowAmount),
     interest_amount |-> amt(data.interestAmount),
     other_amount |-> amt(data.otherAmount),
     line |-> lno,
     filename |-> filename]

\* the comparisons of entries.sort(key=posting_date) raise: None is not ordered
FT_sort_raises(es) ==
    Len(es) >= 2 /\ \E i \in DOMAIN es : es[i].posting_date = None

\* a load that drops the lines it cannot read and keeps the others
FT_load_transactions_partial(file, filename) ==
    LET good == SelectSeq([lno \in DOMAIN file |-> lno],
                          LAMBDA lno : ~FT_line_raises(file[lno]))
        es == Reverse([i \in DOMAIN good |-> FT_entry(file[good[i]], good[i], filename)])
    IN  IF FT_sort_raises(es)
        THEN Raise("FifthThird JSON-L file has incorrect format", filename)
        ELSE IF Len(es) < 2 THEN Return(es)
        ELSE LET sorted == StableSort([i \in DOMAIN es |-> <<Get(es[i].posting_date), es[i]>>])
             IN  Return([i \in DOMAIN sorted |-> sorted[i][2]])

FT_load_transactions(file, filename) ==
    IF \E lno \in DOMAIN file : FT_line_raises(file[lno])
    THEN Raise("FifthThird JSON-L file has incorrect format", filename)
    ELSE LET es == Reverse([lno \in DOMAIN file |-> FT_entry(file[lno], lno, filename)])
         IN  IF FT_sort_raises(es)
             THEN Raise("FifthThird JSON-L file has incorrect format", filename)
             ELSE IF Len(es) < 2 THEN Return(es)
             ELSE LET sorted == StableSort([i \in DOMAIN es |-> <<Get(es[i].posting_date), es[i]>>])
                  IN  Return([i \in DOMAIN sorted |-> sorted[i][2]])

get_info(raw_entry) ==
    [type |-> "application/json", filename |-> raw_entry.filename, line |-> raw_entry.line]

FT_meta(e) ==
    LET present == {f \in FT_meta_fields : e[f] # None}
    IN  [k \in {FT_meta_key[f] : f \in present} |->
            Get(e[CHOOSE f \in present : FT_meta_key[f] = k])]

Posting(account, units, cost, price, meta) ==
    [account |-> account, units |-> units, cost |-> cost, price |-> price, meta |-> meta]

Transaction(meta, d, payee, narration, postings) ==
    [type |-> "Transaction", meta |-> meta, date |-> d, payee |-> payee,
     narration |-> narration, postings |-> postings]

Balance(account, d, amount, meta) ==
    [type |-> "Balance", account |-> account, date |-> d, amount |-> amount, meta |-> meta]

ImportResult(d, info, es) == [date |-> d, info |-> info, entries |-> es]

Neg(a) == Amount(-a.number, a.currency)

\* the assertions dated on the day of the statement itself
FT_bal_date_same_day(e) == Get(e.posting_date)

\* the date of the balance assertions of a statement record
FT_bal_date(e) == Get(e.posting_date) + 1

\* the statement branch with the principal balance left as given
FT_balance_result_unsigned(e) ==
    LET meta == FT_meta(e)
        bal_date == FT_bal_date(e)
        principal ==
            IF e.principal_amount # None
            THEN <<Balance("Liabilities:Mortgage:FifthThird", bal_date,
                           Get(e.principal_amount), meta)>>
            ELSE <<>>
        escrow ==
            IF e.escrow_amount # None
            THEN <<Balance("Assets:FifthThird:Escrow", bal_date, Get(e.escrow_amount), meta)>>
            ELSE <<>>
    IN  ImportResult(Some(bal_date), get_info(e), principal \o escrow)

\* the branch for transaction_code "9999"
FT_balance_result(e) ==
    LET meta == FT_meta(e)
        bal_date == FT_bal_date(e)
        principal ==
            IF e.principal_amount # None
            THEN <<Balance("Liabilities:Mortgage:FifthThird", bal_date,
                           Amount(-1 * Get(e.principal_amount).number,
                                  Get(e.principal_amount).currency), meta)>>
            ELSE <<>>
        escrow ==
            IF e.escrow_amount # None
            THEN <<Balance("Assets:FifthThird:Escrow", bal_date, Get(e.escrow_amount), meta)>>
            ELSE <<>>
    IN  ImportResult(Some(bal_date), get_info(e), principal \o escrow)

\* the branch for transaction_code "5850"
FT_escrow_result(e) ==
    LET desc == Get(e.description)
        src_posting ==
            Posting("Assets:FifthThird:Escrow", Some(Neg(Get(e.amount))), None, None, FT_meta(e))
        payee ==
            IF desc \in HazInsDescriptions THEN <<"Escrow Payment - ", "Homeowner's Insurance">>
            ELSE IF desc \in TaxesDescriptions THEN <<"Escrow Payment - ", "Taxes">>
            ELSE <<"Escrow Payment - ", desc>>
        account ==
            IF desc \in HazInsDescriptions THEN "Expenses:House:Insurance"
            ELSE IF desc \in TaxesDescriptions THEN "Expenses:House:Taxes"
            ELSE "Expenses:FIXME"
        dst_posting == Posting(account, e.escrow_amount, None, None, <<>>)
    IN  ImportResult(e.posting_date, get_info(e),
            <<Transaction(<<>>, e.posting_date, payee, e.description,
                          <<src_posting, dst_posting>>)>>)

\* the default branch with the source posting of the escrow branch
FT_payment_result_from_escrow(e) ==
    LET src_posting ==
            Posting("Assets:FifthThird:Escrow", Some(Neg(Get(e.amount))), None, None, FT_meta(e))
        leg(account, a) == IF a # None THEN <<Posting(account, a, None, None, <<>>)>> ELSE <<>>
        dst_postings ==
            leg("Liabilities:Mortgage:FifthThird", e.principal_amount)
            \o leg("Expenses:House:Mortgage:Interest", e.interest_amount)
            \o leg("Assets:FifthThird:Escrow", e.escrow_amount)
            \o leg("Expenses:House:Mortgage:Other", e.other_amount)
    IN  ImportResult(e.posting_date, get_info(e),
            <<Transaction(<<>>, e.posting_date, <<"Fifth Third Mortgage">>, e.description,
                          <<src_posting>> \o dst_postings)>>)

\* the default branch
FT_payment_result(e) ==
    LET src_posting ==
            Posting("Assets:FifthThird:Payment", Some(Neg(Get(e.amount))), None, None, FT_meta(e))
        leg(account, a) == IF a # None THEN <<Posting(account, a, None, None, <<>>)>> ELSE <<>>
        dst_postings ==
            leg("Liabilities:Mortgage:FifthThird", e.principal_amount)
            \o leg("Expenses:House:Mortgage:Interest", e.interest_amount)
            \o leg("Assets:FifthThird:Escrow", e.escrow_amount)
            \o leg("Expenses:House:Mortgage:Other", e.other_amount)
    IN  ImportResult(e.posting_date, get_info(e),
            <<Transaction(<<>>, e.posting_date, <<"Fifth Third Mortgage">>, e.description,
                          <<src_posting>> \o dst_postings)>>)

\* _make_import_result raises a TypeError: None + timedelta, -None, 'HAZ INS' in None
FT_make_raises(e) ==
    IF e.transaction_code = Some("9999") THEN e.posting_date = None
    ELSE IF e.transaction_code = Some("5850") THEN e.amount = None \/ e.description = None
    ELSE e.amount = None

FT_make_import_result(e) ==
    IF FT_make_raises(e) THEN Raise("TypeError", get_info(e))
    ELSE IF e.transaction_code = Some("9999") THEN Return(FT_balance_result(e))
    ELSE IF e.transaction_code = Some("5850") THEN Return(FT_escrow_result(e))
    ELSE Return(FT_payment_result(e))

\* a scan that reads the metadata of the postings only
existing_transaction_ids_of_postings(all_entries, key) ==
    LET txns == {n \in DOMAIN all_entries : all_entries[n].type = "Transaction"}
        found == UNION {{MetaGet(all_entries[n].postings[i].meta, key) :
                           i \in DOMAIN all_entries[n].postings}
                        : n \in txns}
    IN  {Get(tid) : tid \in {t \in found : t # None}}

\* the values of the key in the metadata of the transactions and of their postings
existing_transaction_ids(all_entries, key) ==
    LET txns == {n \in DOMAIN all_entries : all_entries[n].type = "Transaction"}
        found == UNION {{MetaGet(all_entries[n].meta, key)}
                        \cup {MetaGet(all_entries[n].postings[i].meta, key) :
                                 i \in DOMAIN all_entries[n].postings}
                        : n \in txns}
    IN  {Get(tid) : tid \in {t \in found : t # None}}

\* Python truth of a key value: "" and 0 are false
FT_truthy(tid) == tid # ""

FT_get_existing_transaction_ids(all_entries) ==
    {tid \in existing_transaction_ids(all_entries, "fifththird_transaction_id") : FT_truthy(tid)}

---------------------------------------------------------------------------
(* vanguard.py *)

\* D(x): the Decimal of a number, Decimal() for None
D(o) == IF o = None THEN 0 ELSE Get(o)

\* Decimal division n / q, kept as the exact ratio
Ratio(n, q) == [num |-> n, den |-> q]

\* a Decimal of so many thousandths, as a ratio
Dollars(mills) == Ratio(mills, 1000)

Cost(number, currency, d) == [number |-> number, currency |-> currency, date |-> d]

\* the configuration account_mappings (the constructor requires the four keys)
account_mappings ==
    [Assets_Cash |-> "Assets:Vanguard:Cash",
     Income_Dividend |-> "Income:Vanguard:Dividend",
     Income_GainST |-> "Income:Vanguard:GainST",
     Income_GainLT |-> "Income:Vanguard:GainLT"]

\* journal.accounts: the Open directives that carry a vanguard_account_id
journal_accounts ==
    {[account |-> "Assets:Vanguard:IRA", meta |-> [vanguard_account_id |-> "acct1"]],
     [account |-> "Assets:Vanguard:Brokerage", meta |-> [vanguard_account_id |-> "acct2"]],
     [account |-> "Assets:Checking", meta |-> <<>>]}

find_vanguard_accounts ==
    LET mapped == {a \in journal_accounts : "vanguard_account_id" \in DOMAIN a.meta}
    IN  [id \in {a.meta.vanguard_account_id : a \in mapped} |->
            (CHOOSE a \in mapped : a.meta.vanguard_account_id = id).account]

VG_date_fields == {"recordDate", "tradeDate"}

VG_meta_fields ==
    {"accountId", "sequenceNumber", "transactionCode", "transactionType", "ticker",
     "investmentName", "price", "netAmount", "quantity", "principleAmount",
     "recordDate", "tradeDate"}

VG_meta_key ==
    [accountId |-> "vanguard_accountId",
     sequenceNumber |-> "vanguard_sequenceNumber",
     transactionCode |-> "vanguard_transactionCode",
     transactionType |-> "vanguard_transactionType",
     ticker |-> "vanguard_ticker",
     investmentName |-> "vanguard_investmentName",
     price |-> "vanguard_price",
     netAmount |-> "vanguard_netAmount",
     quantity |-> "vanguard_quantity",
     principleAmount |-> "vanguard_principleAmount",
     recordDate |-> "vanguard_recordDate",
     tradeDate |-> "vanguard_tradeDate"]

\* the fields whose values are numbers (a value 0 is left out of the metadata)
VG_number_fields == {"sequenceNumber", "price", "netAmount", "quantity", "principleAmount"}

\* json.loads(line) and the construction of one VanguardEntry raise
VG_line_raises(data) ==
    \/ ~data.decodable
    \/ \E f \in data.garbled \cap VG_date_fields : data[f] # None

VG_entry(data, lno, filename) ==
    [accountId |-> data.accountId,
     sequenceNumber |-> data.sequenceNumber,
     transactionCode |-> data.transactionCode,
     transactionType |-> data.transactionType,
     ticker |-> data.ticker,
     investmentName |-> data.investmentName,
     price |-> data.price,
     netAmount |-> data.netAmount,
     quantity |-> data.quantity,
     principleAmount |-> data.principleAmount,
     recordDate |-> date(data.recordDate),
     tradeDate |-> date(data.tradeDate),
     line |-> lno,
     filename |-> filename]

\* the comparisons of entries.sort(key=sequenceNumber) raise: None is not ordered
VG_sort_raises(es) ==
    Len(es) >= 2 /\ \E i \in DOMAIN es : es[i].sequenceNumber = None

VG_load_transactions(file, filename) ==
    IF \E lno \in DOMAIN file : VG_line_raises(file[lno])
    THEN Raise("Vanguard JSON-L file has incorrect format", filename)
    ELSE LET es == Reverse([lno \in DOMAIN file |-> VG_entry(file[lno], lno, filename)])
         IN  IF VG_sort_raises(es)
             THEN Raise("Vanguard JSON-L file has incorrect format", filename)
             ELSE IF Len(es) < 2 THEN Return(es)
             ELSE LET sorted == StableSort([i \in DOMAIN es |-> <<Get(es[i].sequenceNumber), es[i]>>])
                  IN  Return([i \in DOMAIN sorted |-> sorted[i][2]])

\* the metadata without the test for zero and empty values
VG_meta_unfiltered(e) ==
    LET present == {f \in VG_meta_fields : e[f] # None}
    IN  [k \in {VG_meta_key[f] : f \in present} |->
            Get(e[CHOOSE f \in present : VG_meta_key[f] = k])]

VG_meta(e) ==
    LET present == {f \in VG_meta_fields :
                      /\ e[f] # None
                      /\ (f \in VG_number_fields => Get(e[f]) # 0)
                      /\ (f \notin VG_number_fields \cup VG_date_fields => Get(e[f]) # "")}
    IN  [k \in {VG_meta_key[f] : f \in present} |->
            Get(e[CHOOSE f \in present : VG_meta_key[f] = k])]

\* if vanguard_entry.price: / elif netAmount != 0 and quantity > 0:
VG_price_given(e) == e.price # None /\ Get(e.price) # 0
VG_net_nonzero(e) == e.netAmount = None \/ Get(e.netAmount) # 0

VG_conversion_codes == {"CNVO", "CNVI"}

\* _make_import_result raises: unmapped account, None > 0, division by zero
VG_make_raises(e, vanguard_accounts) ==
    \/ e.accountId = None
    \/ Get(e.accountId) \notin DOMAIN vanguard_accounts
    \/ ~VG_price_given(e) /\ VG_net_nonzero(e) /\ e.quantity = None
    \/ /\ e.transactionCode # None
       /\ Get(e.transactionCode) \in VG_conversion_codes
       /\ D(e.quantity) = 0

VG_dst_cost(e) ==
    IF VG_price_given(e) THEN Some(Cost(Dollars(D(e.price)), "USD", e.tradeDate))
    ELSE IF VG_net_nonzero(e) /\ Get(e.quantity) > 0
    THEN Some(Cost(Ratio(D(e.netAmount), D(e.quantity)), "USD", e.tradeDate))
    ELSE None

VG_transaction(e, vanguard_accounts) ==
    LET code == IF e.transactionCode = None THEN "" ELSE Get(e.transactionCode)
        base == vanguard_accounts[Get(e.accountId)]
        cash_account == <<base, "Cash">>
        vang_account == <<base, e.ticker>>
        principle == Amount(D(e.principleAmount), "USD")
        neg_principle == Amount(-1 * D(e.principleAmount), "USD")
        quantity == Amount(D(e.quantity), e.ticker)
        fixme == <<"Expenses:FIXME">>
        cash_leg == code \in {"WOFF", "ROLL"}
                    \/ (code = "DTRF" /\ e.investmentName = Some("CASH"))
        income_leg == code \in {"SCAP", "LCAP", "DIV"}
        src_account ==
            IF code \in {"5005", "7066", "7001", "BUY", "9558", "9555"} THEN cash_account
            ELSE IF code = "8037" THEN <<account_mappings.Income_GainST>>
            ELSE IF code = "8035" THEN <<account_mappings.Income_GainLT>>
            ELSE IF code \in {"5010", "8015", "8112"} THEN <<account_mappings.Income_Dividend>>
            ELSE IF code = "ROLL" THEN <<"Assets:Retirement:OldAccount">>
            ELSE fixme
        src_units ==
            IF cash_leg THEN principle
            ELSE IF code = "DTRF" THEN Amount(-D(e.quantity), e.ticker)
            ELSE neg_principle
        dst_account ==
            IF cash_leg THEN cash_account
            ELSE IF code \in {"SCAP", "LCAP"} THEN <<account_mappings.Income_GainST>>
            ELSE IF code = "DIV" THEN <<account_mappings.Income_Dividend>>
            ELSE vang_account
        dst_units ==
            IF cash_leg THEN neg_principle
            ELSE IF income_leg THEN principle
            ELSE quantity
        dst_cost ==
            IF income_leg \/ code \in {"CNVO", "SELE"} THEN None
            ELSE IF code = "CNVI"
            THEN Some(Cost(Ratio(D(e.netAmount), D(e.quantity)), "USD", e.tradeDate))
            ELSE VG_dst_cost(e)
        dst_price ==
            IF code = "CNVO" THEN Some(Amount(Ratio(D(e.netAmount), D(e.quantity)), "USD"))
            ELSE IF code = "SELE" THEN Some(Amount(Dollars(D(e.price)), "USD"))
            ELSE None
        narration ==
            IF code \in {"LCAP", "RLCP"} THEN <<"Gain (LT)">>
            ELSE IF code \in {"SCAP", "RSCP"} THEN <<"Gain (ST)">>
            ELSE IF code \in {"DIV", "RDIV", "RDDV"} THEN <<"Dividend">>
            ELSE <<e.transactionType, e.ticker, e.investmentName>>
        src_posting == Posting(src_account, Some(src_units), None, None, <<>>)
        dst_posting == Posting(dst_account, Some(dst_units), dst_cost, dst_price, VG_meta(e))
    IN  Transaction(<<>>, e.recordDate, <<"Vanguard">>, narration, <<src_posting, dst_posting>>)

VG_make_import_result(e, vanguard_accounts) ==
    IF VG_make_raises(e, vanguard_accounts) THEN Raise("Error", get_info(e))
    ELSE Return(ImportResult(e.recordDate, get_info(e), <<VG_transaction(e, vanguard_accounts)>>))

VG_truthy(tid) == tid # 0

VG_get_existing_transaction_ids(all_entries) ==
    {tid \in existing_transaction_ids(all_entries, "vanguard_sequenceNumber") : VG_truthy(tid)}

---------------------------------------------------------------------------
(* wegmans.py *)

\* a product name that contains 'Kombucha'
KombuchaNames == {"GT's Kombucha"}

\* ", ".join(labels): a label is a sequence of pieces of text
RECURSIVE Join(_)
Join(labels) ==
    IF labels = <<>> THEN <<>>
    ELSE IF Len(labels) = 1 THEN labels[1]
    ELSE labels[1] \o <<", ">> \o Join(Tail(labels))

\* categories[0:2]
FirstTwo(categories) == SubSeq(categories, 1, IF Len(categories) < 2 THEN Len(categories) ELSE 2)

\* hashlib.md5(text).hexdigest()
md5(text) == <<"md5", text>>

WG_cathash(item) ==
    IF item.store_product.name \in KombuchaNames THEN <<"Kombucha">>
    ELSE md5(Join(FirstTwo(item.store_product.categories)))

\* a removed item without a replacement is counted as it stands
WG_counted_keeping_removed(item) ==
    IF item.status = Some("removed") /\ item.child_order_item # None
    THEN item.child_order_item
    ELSE Some(item)

\* the item that is counted for an order item: itself, its replacement, or none
WG_counted(item) ==
    IF item.status = Some("removed")
    THEN IF item.child_order_item # None THEN item.child_order_item ELSE None
    ELSE Some(item)

WG_counted_items(items) ==
    LET RECURSIVE walk(_)
        walk(i) ==
            IF i > Len(items) THEN <<>>
            ELSE (IF WG_counted(items[i]) = None THEN <<>> ELSE <<Get(WG_counted(items[i]))>>)
                 \o walk(i + 1)
    IN  walk(1)

RECURSIVE SumSubTotals(_)
SumSubTotals(items) ==
    IF items = <<>> THEN 0 ELSE Head(items).sub_total + SumSubTotals(Tail(items))

\* grouped.keys(): the bucket keys in the order of their first item
RECURSIVE WG_bucket_keys(_)
WG_bucket_keys(items) ==
    IF items = <<>> THEN <<>>
    ELSE LET front == WG_bucket_keys(SubSeq(items, 1, Len(items) - 1))
             k == WG_cathash(items[Len(items)])
         IN  IF k \in Range(front) THEN front ELSE Append(front, k)

\* the bucket posting with the sub-total of its first item only
WG_bucket_posting_first_item(cathash, counted) ==
    LET IsIn(item) == WG_cathash(item) = cathash
        members == SelectSeq(counted, IsIn)
        item_meta ==
            [wegmans_category |-> Join(FirstTwo(members[1].store_product.categories)),
             wegmans_items |->
                [i \in DOMAIN members |->
                    <<Join(members[i].store_product.categories),
                      members[i].store_product.name, members[i].sub_total>>]]
    IN  Posting(<<"Expenses:FIXME:", cathash>>, Some(Amount(members[1].sub_total, "USD")),
                None, None, item_meta)

WG_bucket_posting(cathash, counted) ==
    LET IsIn(item) == WG_cathash(item) = cathash
        members == SelectSeq(counted, IsIn)
        item_meta ==
            [wegmans_category |-> Join(FirstTwo(members[1].store_product.categories)),
             wegmans_items |->
                [i \in DOMAIN members |->
                    <<Join(members[i].store_product.categories),
                      members[i].store_product.name, members[i].sub_total>>]]
    IN  Posting(<<"Expenses:FIXME:", cathash>>, Some(Amount(SumSubTotals(members), "USD")),
                None, None, item_meta)

\* _make_import_result raises a KeyError, a TypeError or a ValueError
WG_make_raises(e) ==
    \/ e.id = None
    \/ e.timestamp = None
    \/ "timestamp" \in e.garbled
    \/ e.store = None
    \/ e.total = None
    \/ e.items = None

\* the transaction without the test of the totals
WG_transaction_unreconciled(e) ==
    LET meta ==
            [wegmans_order_id |-> Get(e.id),
             wegmans_timestamp |-> Get(e.timestamp),
             wegmans_store |-> Get(e.store)]
        counted == WG_counted_items(Get(e.items))
        item_total == SumSubTotals(counted)
        charge_total == Get(e.total)
        tax_total == D(e.tax_total)
        charge_meta == [wegmans_sales_tax |-> tax_total, wegmans_total |-> charge_total]
        charge == Posting(<<"Expenses:FIXME:Charge">>, Some(Amount(-1 * charge_total, "USD")),
                          None, None, charge_meta)
        tax == Posting(<<"Expenses:FIXME:Tax">>, Some(Amount(tax_total, "USD")),
                       None, None, [wegmans_sales_tax |-> tax_total])
        discrepancy == <<>>
        keys == WG_bucket_keys(counted)
        buckets == [i \in DOMAIN keys |-> WG_bucket_posting(keys[i], counted)]
    IN  Transaction(meta, e.timestamp, <<"Wegmans">>, None,
                    <<charge, tax>> \o discrepancy \o buckets)

WG_transaction(e) ==
    LET meta ==
            [wegmans_order_id |-> Get(e.id),
             wegmans_timestamp |-> Get(e.timestamp),
             wegmans_store |-> Get(e.store)]
        counted == WG_counted_items(Get(e.items))
        item_total == SumSubTotals(counted)
        charge_total == Get(e.total)
        tax_total == D(e.tax_total)
        charge_meta == [wegmans_sales_tax |-> tax_total, wegmans_total |-> charge_total]
        charge == Posting(<<"Expenses:FIXME:Charge">>, Some(Amount(-1 * charge_total, "USD")),
                          None, None, charge_meta)
        tax == Posting(<<"Expenses:FIXME:Tax">>, Some(Amount(tax_total, "USD")),
                       None, None, [wegmans_sales_tax |-> tax_total])
        discrepancy ==
            IF charge_total # item_total + tax_total
            THEN <<Posting(<<"Expenses:Food:Groceries">>,
                           Some(Amount(charge_total - (item_total + tax_total), "USD")),
                           None, None, [wegmans_comment |-> "Unknown discrepancy"])>>
            ELSE <<>>
        keys == WG_bucket_keys(counted)
        buckets == [i \in DOMAIN keys |-> WG_bucket_posting(keys[i], counted)]
    IN  Transaction(meta, e.timestamp, <<"Wegmans">>, None,
                    <<charge, tax>> \o discrepancy \o buckets)

WG_make_import_result(e) ==
    IF WG_make_raises(e) THEN Raise("Error", e.filename)
    ELSE Return(ImportResult(e.timestamp, None, <<WG_transaction(e)>>))

\* the decoded document with data['filename'] set
WG_entry(data, filename) ==
    [id |-> data.id, status |-> data.status, timestamp |-> data.timestamp,
     store |-> data.store, total |-> data.total, tax_total |-> data.tax_total,
     items |-> data.items, garbled |-> data.garbled, filename |-> filename]

\* load_transactions(dir): every .json file of the directory, in listing order
WG_load_transactions(docs) ==
    IF \E n \in DOMAIN docs : ~docs[n].decodable
    THEN Raise("Wegmans JSON file has incorrect format",
               CHOOSE n \in DOMAIN docs :
                  ~docs[n].decodable /\ \A m \in 1..(n - 1) : docs[m].decodable)
    ELSE Return([n \in DOMAIN docs |-> WG_entry(docs[n], n)])

WG_truthy(tid) == tid # ""

WG_get_existing_transaction_ids(all_entries) ==
    {tid \in existing_transaction_ids(all_entries, "wegmans_order_id") : WG_truthy(tid)}

---------------------------------------------------------------------------
(* The three Source classes: __init__ and prepare *)

Sources == {"fifththird", "vanguard", "wegmans"}

load_transactions(src, file, filename) ==
    IF src = "fifththird" THEN FT_load_transactions(file, filename)
    ELSE VG_load_transactions(file, filename)

\* the loop of __init__ over the files of dir, from file n on, with the entries so far
RECURSIVE load_dir(_, _, _, _)
load_dir(src, fs, n, acc) ==
    IF n > Len(fs) THEN [entries |-> acc, error |-> None]
    ELSE LET r == load_transactions(src, fs[n], n)
         IN  IF r.raised THEN [entries |-> acc, error |-> Some(r)]
             ELSE load_dir(src, fs, n + 1, acc \o r.value)

\* __init__: self.entries and the exception raised, if any
construct(src, isdir, fs) ==
    IF src = "wegmans"
    THEN LET r == WG_load_transactions([n \in DOMAIN fs |-> fs[n][1]])
         IN  IF r.raised THEN [entries |-> <<>>, error |-> Some(r)]
             ELSE [entries |-> r.value, error |-> None]
    ELSE IF isdir THEN load_dir(src, fs, 1, <<>>)
    ELSE LET r == load_transactions(src, fs[1], 1)
         IN  IF r.raised THEN [entries |-> <<>>, error |-> Some(r)]
             ELSE [entries |-> r.value, error |-> None]

\* the key of an entry that prepare looks up in the existing ids
entry_key(src, e) ==
    IF src = "fifththird" THEN e.transaction_id
    ELSE IF src = "vanguard" THEN e.sequenceNumber
    ELSE e.id

get_existing_transaction_ids(src, all_entries) ==
    IF src = "fifththird" THEN FT_get_existing_transaction_ids(all_entries)
    ELSE IF src = "vanguard" THEN VG_get_existing_transaction_ids(all_entries)
    ELSE WG_get_existing_transaction_ids(all_entries)

\* a loop that tests the key only
skipped_by_key_only(src, e, existing_tids) ==
    entry_key(src, e) # None /\ Get(entry_key(src, e)) \in existing_tids

\* the tests of the loop of prepare that end in `continue`
skipped(src, e, existing_tids) ==
    \/ src = "wegmans" /\ e.status = Some("cancelled")
    \/ entry_key(src, e) # None /\ Get(entry_key(src, e)) \in existing_tids

make_import_result(src, e) ==
    IF src = "fifththird" THEN FT_make_import_result(e)
    ELSE IF src = "vanguard" THEN VG_make_import_result(e, find_vanguard_accounts)
    ELSE WG_make_import_result(e)

\* a loop that leaves out an entry whose synthesis raises and goes on
RECURSIVE prepare_loop_skipping(_, _, _, _, _)
prepare_loop_skipping(src, es, existing_tids, i, acc) ==
    IF i > Len(es) THEN [pending |-> acc, error |-> None]
    ELSE IF skipped(src, es[i], existing_tids)
    THEN prepare_loop_skipping(src, es, existing_tids, i + 1, acc)
    ELSE LET r == make_import_result(src, es[i])
         IN  IF r.raised THEN prepare_loop_skipping(src, es, existing_tids, i + 1, acc)
             ELSE prepare_loop_skipping(src, es, existing_tids, i + 1, Append(acc, r.value))

\* the loop of prepare from entry i on, with the results added so far
RECURSIVE prepare_loop(_, _, _, _, _)
prepare_loop(src, es, existing_tids, i, acc) ==
    IF i > Len(es) THEN [pending |-> acc, error |-> None]
    ELSE IF skipped(src, es[i], existing_tids)
    THEN prepare_loop(src, es, existing_tids, i + 1, acc)
    ELSE LET r == make_import_result(src, es[i])
         IN  IF r.raised THEN [pending |-> acc, error |-> Some(r)]
             ELSE prepare_loop(src, es, existing_tids, i + 1, Append(acc, r.value))

\* new_tids = set([e['id'] for e in self.entries]) raises a KeyError
new_tids_raises(src, es) ==
    src = "wegmans" /\ \E i \in DOMAIN es : es[i].id = None

prepare(src, es, all_entries) ==
    IF new_tids_raises(src, es)
    THEN [pending |-> <<>>, error |-> Some(Raise("KeyError", "id"))]
    ELSE prepare_loop(src, es, get_existing_transaction_ids(src, all_entries), 1, <<>>)

---------------------------------------------------------------------------
(* The download sessions of Fifth Third: the server draws the "id" of every   *)
(* transaction anew in each session                                           *)

NextSessionId ==
    [u1 |-> "v1", u2 |-> "v2", u3 |-> "v3", u4 |-> "v4",
     u5 |-> "v5", u6 |-> "v6", u7 |-> "v7", u8 |-> "v8"]

refetched(src, data) ==
    IF src = "fifththird" /\ data.id # None /\ Get(data.id) \in DOMAIN NextSessionId
    THEN [data EXCEPT !.id = Some(NextSessionId[Get(data.id)])]
    ELSE data

---------------------------------------------------------------------------
(* Actions *)

\* Source.__init__
Construct ==
    /\ pc = "new"
    /\ LET r == construct(source, dir, files)
       IN  /\ entries' = r.entries
           /\ error' = r.error
           /\ pc' = IF r.error = None THEN "loaded" ELSE "failed"
    /\ UNCHANGED <<source, dir, files, session, journal, pending, accepted, run>>

\* Source.prepare(journal, results) with a fresh SourceResults
Prepare ==
    /\ pc \in {"loaded", "prepared"}
    /\ run < MaxRuns
    /\ LET r == prepare(source, entries, journal)
       IN  /\ pending' = r.pending
           /\ error' = r.error
           /\ pc' = IF r.error = None THEN "prepared" ELSE "aborted"
    /\ accepted' = {}
    /\ run' = run + 1
    /\ UNCHANGED <<source, dir, files, session, entries, journal>>

\* the entries of the pending ImportResults chosen, in the order of pending
RECURSIVE chosen_entries(_, _, _)
chosen_entries(results, chosen, i) ==
    IF i > Len(results) THEN <<>>
    ELSE (IF i \in chosen THEN results[i].entries ELSE <<>>)
         \o chosen_entries(results, chosen, i + 1)

\* the user accepts some of the pending ImportResults: their entries, with the
\* metadata the source attached, are added to the journal
Accept ==
    /\ pc = "prepared"
    /\ run < MaxRuns
    /\ accepted = {}
    /\ \E chosen \in SUBSET (DOMAIN pending) \ {{}} :
          /\ journal' = journal \o chosen_entries(pending, chosen, 1)
          /\ accepted' = chosen
    /\ UNCHANGED <<source, dir, files, session, entries, error, pending, run, pc>>

\* the same events are downloaded again in a new session, to the same files
Refetch ==
    /\ pc = "prepared"
    /\ session = 1
    /\ run < MaxRuns
    /\ session' = 2
    /\ files' = [n \in DOMAIN files |->
                    [k \in DOMAIN files[n] |-> refetched(source, files[n][k])]]
    /\ entries' = <<>>
    /\ pending' = <<>>
    /\ accepted' = {}
    /\ pc' = "new"
    /\ UNCHANGED <<source, dir, error, journal, run>>

Next == Construct \/ Prepare \/ Accept \/ Refetch

---------------------------------------------------------------------------
(* The raw records the runs are checked on *)

FT_raw(id, postDate, code, amount, principal, escrow) ==
    [decodable |-> TRUE, garbled |-> {}, id |-> id, postDate |-> postDate,
     amount |-> amount, description |-> Some("MORTGAGE PAYMENT"), transactionCode |-> code,
     principalAmount |-> principal, escrowAmount |-> escrow,
     interestAmount |-> None, otherAmount |-> None]

VG_raw(accountId, sequenceNumber, code, quantity) ==
    [decodable |-> TRUE, garbled |-> {}, accountId |-> accountId,
     sequenceNumber |-> sequenceNumber, transactionCode |-> code,
     transactionType |-> Some("Buy"), ticker |-> Some("VTSAX"),
     investmentName |-> Some("Total Stock Market"), price |-> None,
     netAmount |-> Some(10000), quantity |-> quantity, principleAmount |-> Some(10000),
     recordDate |-> Some(1), tradeDate |-> Some(1)]

WG_item(name, categories, sub_total) ==
    [status |-> None, child_order_item |-> None, sub_total |-> sub_total,
     store_product |-> [name |-> name, categories |-> categories]]

WG_raw(id, status, timestamp) ==
    [decodable |-> TRUE, garbled |-> {}, id |-> id, status |-> status,
     timestamp |-> timestamp, store |-> Some("Pittsford"), total |-> Some(1000),
     tax_total |-> Some(80),
     items |-> Some(<<WG_item("Milk", << <<"Dairy">>, <<"Milk">> >>, 400),
                      WG_item("GT's Kombucha", << <<"Dairy">> >>, 500)>>)]

\* records that differ in the key, in the kind of record and in what they lack
KeyRecords(src) ==
    IF src = "fifththird"
    THEN {FT_raw(None, Some(1), Some("0100"), Some(5000), Some(3000), Some(2000)),
          FT_raw(Some(""), Some(1), Some("0100"), Some(5100), Some(3100), Some(2000)),
          FT_raw(Some("u1"), Some(1), Some("0100"), Some(5200), Some(3200), Some(2000)),
          FT_raw(Some("u2"), Some(1), Some("0100"), Some(5300), Some(3300), Some(2000)),
          FT_raw(Some("u3"), Some(1), Some("9999"), None, Some(3000), Some(2000)),
          FT_raw(Some("u4"), Some(1), Some("0100"), None, Some(3000), None)}
    ELSE IF src = "vanguard"
    THEN {VG_raw(Some("acct1"), Some(n), Some("BUY"), Some(4)) : n \in {0, 1, 2}}
         \cup {VG_raw(Some("acct2"), Some(1), Some("BUY"), Some(4)),
               VG_raw(Some("acct9"), Some(3), Some("BUY"), Some(4)),
               VG_raw(Some("acct1"), Some(3), Some("XXXX"), None)}
    ELSE {WG_raw(id, None, Some(1)) : id \in {None, Some(""), Some("o1"), Some("o2")}}
         \cup {WG_raw(Some("o3"), Some("cancelled"), Some(1))}

\* Fifth Third statement records that differ in the balances they carry
StatementRecords ==
    {FT_raw(Some("u1"), Some(1), Some("9999"), None, Some(3005), Some(2000)),
     FT_raw(Some("u2"), Some(1), Some("9999"), None, None, Some(2000)),
     FT_raw(Some("u3"), Some(1), Some("9999"), None, Some(0), Some(2000)),
     FT_raw(Some("u4"), Some(1), Some("9999"), None, Some(3005), None),
     FT_raw(Some("u5"), Some(1), Some("9999"), None, None, None),
     FT_raw(Some("u6"), Some(2), Some("9999"), None, Some(3015), Some(2000)),
     FT_raw(Some("u7"), Some(1), Some("0100"), Some(5000), Some(3000), Some(2000)),
     FT_raw(Some("u8"), None, Some("9999"), None, Some(3005), Some(2000))}

\* records that differ in the sort key and in what is missing or unreadable
LoadRecords(src) ==
    IF src = "fifththird"
    THEN {FT_raw(Some("u1"), Some(1), Some("0100"), Some(5000), Some(3000), Some(2000)),
          FT_raw(Some("u2"), Some(2), Some("0100"), Some(5100), Some(3100), Some(2000)),
          FT_raw(Some("u3"), None, Some("0100"), Some(5200), Some(3200), Some(2000)),
          FT_raw(Some("u4"), Some(1), Some("0100"), None, Some(3300), Some(2000)),
          [FT_raw(Some("u5"), Some(1), Some("0100"), Some(5400), None, None)
              EXCEPT !.garbled = {"postDate"}],
          [FT_raw(Some("u6"), Some(1), Some("0100"), Some(5500), None, None)
              EXCEPT !.garbled = {"amount"}],
          [FT_raw(Some("u7"), Some(1), Some("0100"), Some(5600), None, None)
              EXCEPT !.decodable = FALSE]}
    ELSE IF src = "vanguard"
    THEN {VG_raw(Some("acct1"), Some(1), Some("BUY"), Some(4)),
          VG_raw(Some("acct1"), Some(2), Some("BUY"), Some(4)),
          VG_raw(Some("acct1"), None, Some("BUY"), Some(4)),
          [VG_raw(Some("acct1"), Some(3), Some("BUY"), Some(4))
              EXCEPT !.garbled = {"recordDate"}],
          [VG_raw(Some("acct1"), Some(4), Some("BUY"), Some(4))
              EXCEPT !.decodable = FALSE]}
    ELSE {WG_raw(Some("o1"), None, Some(1)),
          WG_raw(Some("o2"), None, None),
          [WG_raw(Some("o3"), None, Some(1)) EXCEPT !.decodable = FALSE]}

\* Fifth Third payments and escrow disbursements that differ in their components
PaymentRecords ==
    {FT_raw(Some("u1"), Some(1), Some("0100"), Some(5000), Some(3000), Some(2000)),
     [FT_raw(Some("u2"), Some(1), Some("0100"), Some(5005), Some(3015), Some(0))
         EXCEPT !.interestAmount = Some(4), !.otherAmount = Some(25)],
     [FT_raw(Some("u3"), Some(1), Some("5850"), Some(1230), None, Some(1230))
         EXCEPT !.description = Some("HAZ INS DISB")],
     [FT_raw(Some("u4"), Some(1), Some("5850"), Some(1230), None, None)
         EXCEPT !.description = Some("ESC DISB - CUSTOMER")],
     [FT_raw(Some("u5"), Some(1), Some("5850"), Some(1230), None, Some(0))
         EXCEPT !.description = Some("COUNTY TAXES DISB")],
     FT_raw(Some("u6"), Some(2), Some("7777"), Some(5000), None, None),
     FT_raw(Some("u7"), Some(2), None, Some(5015), Some(5015), None),
     FT_raw(Some("u8"), Some(2), Some("7777"), None, Some(3000), Some(2000))}

\* Vanguard records that differ in code, account, price, net amount and quantity
BrokerageRecords ==
    {[VG_raw(Some("acct1"), Some(1), Some("BUY"), Some(4000)) EXCEPT !.price = Some(2500)],
     VG_raw(Some("acct1"), Some(2), Some("BUY"), Some(3000)),
     [VG_raw(Some("acct1"), Some(3), Some("XXXX"), Some(4000)) EXCEPT !.price = Some(2505)],
     VG_raw(Some("acct9"), Some(4), Some("XXXX"), Some(4000)),
     [VG_raw(Some("acct1"), Some(5), Some("CNVI"), Some(0)) EXCEPT !.price = Some(2500)],
     [VG_raw(Some("acct1"), Some(6), Some("CNVO"), Some(4000)) EXCEPT !.price = Some(2000)],
     [VG_raw(Some("acct1"), Some(0), Some("DIV"), Some(4000))
         EXCEPT !.principleAmount = Some(1005), !.price = Some(0)],
     [VG_raw(Some("acct2"), Some(7), Some("BUY"), Some(4000)) EXCEPT !.netAmount = None],
     VG_raw(Some("acct1"), Some(8), None, None),
     VG_raw(None, Some(9), Some("DIV"), Some(4000))}

\* Vanguard records of capital gains: reinvested directly (8037, 8035), paid
\* to cash (SCAP, LCAP) and reinvested from cash (RSCP, RLCP); and a purchase
GainRecords ==
    {VG_raw(Some("acct1"), Some(1), Some("8037"), Some(4000)),
     VG_raw(Some("acct1"), Some(2), Some("8035"), Some(4000)),
     VG_raw(Some("acct1"), Some(3), Some("SCAP"), Some(4000)),
     VG_raw(Some("acct1"), Some(4), Some("LCAP"), Some(4000)),
     VG_raw(Some("acct2"), Some(5), Some("RSCP"), Some(4000)),
     VG_raw(Some("acct2"), Some(6), Some("RLCP"), Some(4000)),
     VG_raw(Some("acct1"), Some(7), Some("BUY"), Some(4000))}

\* Wegmans orders that differ in their items and totals
OrderRecords ==
    LET milk == WG_item("Milk", << <<"Dairy">>, <<"Milk">> >>, 400)
        cream == WG_item("Cream", << <<"Dairy">>, <<"Milk">>, <<"Cream">> >>, 305)
        kombucha == WG_item("GT's Kombucha", << <<"Dairy">> >>, 500)
        soap == WG_item("Soap", << <<"Home">>, <<"Bath">> >>, 200)
        towel == WG_item("Towel", << <<"Home", ", ", "Bath">> >>, 300)
        gone == [soap EXCEPT !.status = Some("removed")]
        swapped == [milk EXCEPT !.status = Some("removed"), !.child_order_item = Some(kombucha)]
        order(id, items, total, tax) ==
            [WG_raw(Some(id), None, Some(1))
                EXCEPT !.items = Some(items), !.total = Some(total), !.tax_total = tax]
    IN  {order("o1", <<milk, kombucha>>, 980, Some(80)),
         order("o2", <<milk, kombucha>>, 1000, Some(80)),
         order("o3", <<milk, cream, soap>>, 905, None),
         order("o4", <<soap, towel>>, 450, Some(0)),
         order("o5", <<gone, swapped, milk>>, 900, Some(0)),
         order("o6", <<>>, 80, Some(80))}

\* all sequences over S of length at most n
SeqsUpTo(S, n) == UNION {[1..k -> S] : k \in 0..n}

\* the sequence flat cut into files after the places in cuts
SplitAt(flat, cuts) ==
    LET starts == {1} \cup {c + 1 : c \in cuts}
        nth(k) == CHOOSE b \in starts : Cardinality({t \in starts : t < b}) = k - 1
        last(b) == IF \E t \in starts : t > b
                   THEN (CHOOSE t \in starts : t > b /\ \A u \in starts : u > b => t <= u) - 1
                   ELSE Len(flat)
    IN  IF flat = <<>> THEN <<>>
        ELSE [k \in 1..Cardinality(starts) |-> SubSeq(flat, nth(k), last(nth(k)))]

\* the state before the constructor: a source and its input, drawn from records
InitWith(records) ==
    /\ source \in DOMAIN records
    /\ dir \in BOOLEAN
    /\ \E flat \in SeqsUpTo(records[source], MaxRecords) :
         \E cuts \in SUBSET (1..(Len(flat) - 1)) :
            /\ source = "wegmans" => dir /\ cuts = 1..(Len(flat) - 1)
            /\ ~dir => cuts = {}
            /\ files = IF dir THEN SplitAt(flat, cuts) ELSE <<flat>>
    /\ session = 1
    /\ entries = <<>>
    /\ error = None
    /\ journal = <<>>
    /\ pending = <<>>
    /\ accepted = {}
    /\ run = 0
    /\ pc = "new"

Init == InitWith([src \in Sources |-> KeyRecords(src)])

Spec == Init /\ [][Next]_vars

\* the runs on Fifth Third statement records
InitStatement == InitWith([src \in {"fifththird"} |-> StatementRecords])

SpecStatement == InitStatement /\ [][Next]_vars

\* the runs on input that is out of order, incomplete or unreadable
InitLoad == InitWith([src \in Sources |-> LoadRecords(src)])

SpecLoad == InitLoad /\ [][Next]_vars

\* the runs on Fifth Third payments and escrow disbursements
InitPayment == InitWith([src \in {"fifththird"} |-> PaymentRecords])

SpecPayment == InitPayment /\ [][Next]_vars

\* the runs on Vanguard records
InitBrokerage == InitWith([src \in {"vanguard"} |-> BrokerageRecords])

SpecBrokerage == InitBrokerage /\ [][Next]_vars

\* the runs on Vanguard capital gains
InitGains == InitWith([src \in {"vanguard"} |-> GainRecords])

SpecGains == InitGains /\ [][Next]_vars

\* the runs on Wegmans orders
InitOrders == InitWith([src \in {"wegmans"} |-> OrderRecords])

SpecOrders == InitOrders /\ [][Next]_vars

\* the runs of the two JSON-L sources on the records that differ in their
\* synthesis; of the payments, those that state their amount and, for a
\* disbursement, their escrow amount
InitSynthesis ==
    InitWith([src \in {"fifththird", "vanguard"} |->
                 IF src = "fifththird"
                 THEN {r \in PaymentRecords : r.id \notin {Some("u4"), Some("u8")}}
                 ELSE BrokerageRecords])

SpecSynthesis == InitSynthesis /\ [][Next]_vars

---------------------------------------------------------------------------
(* Vocabulary of the properties *)

\* prepare has just run: the journal is the one it read
JustPrepared == pc \in {"prepared", "aborted"} /\ accepted = {}

\* the metadata field that holds the key of the source
KeyField ==
    IF source = "fifththird" THEN "fifththird_transaction_id"
    ELSE IF source = "vanguard" THEN "vanguard_sequenceNumber"
    ELSE "wegmans_order_id"

KeyOf(e) == entry_key(source, e)

\* the pending ImportResult p was made from the entry e
IsResultOf(p, e) ==
    IF source = "wegmans"
    THEN e.id # None /\ p.entries[1].meta.wegmans_order_id = Get(e.id)
    ELSE p.info.filename = e.filename /\ p.info.line = e.line

HasResult(e) == \E j \in DOMAIN pending : IsResultOf(pending[j], e)

\* every metadata map of a transaction of the journal and of its postings
TransactionMetas ==
    UNION {{journal[n].meta} \cup {journal[n].postings[i].meta : i \in DOMAIN journal[n].postings} :
           n \in {m \in DOMAIN journal : journal[m].type = "Transaction"}}

\* the key value k appears in the metadata of a transaction or posting of the journal
KeyInLedger(k) == \E meta \in TransactionMetas : KeyField \in DOMAIN meta /\ meta[KeyField] = k

\* the key value is not the empty string and not zero
NonEmptyKey(k) == IF source = "vanguard" THEN k # 0 ELSE k # ""

---------------------------------------------------------------------------
(* C1: when every pending entry of a run was added to the journal and prepare *)
(* runs again on the same input, the second run emits no pending entry.       *)
C1_Idempotence ==
    [][(pc = "prepared" /\ accepted = DOMAIN pending /\ run' = run + 1)
         => pending' = <<>>]_vars

---------------------------------------------------------------------------
---------------------------------------------------------------------------
(* C3: every entry whose key is absent from the keys found in the journal     *)
(* yields exactly one pending ImportResult, in the order of the entries, and  *)
(* no entry makes the run fail.                                               *)

\* the key of e is absent from the set of keys found in the journal
KeyAbsent(e) ==
    KeyOf(e) = None \/ Get(KeyOf(e)) \notin get_existing_transaction_ids(source, journal)

\* pending holds exactly one result for each entry of es, in order
OneResultEach(es) ==
    /\ Len(pending) = Len(es)
    /\ \A k \in DOMAIN es : IsResultOf(pending[k], es[k])

Cancelled(e) == source = "wegmans" /\ e.status = Some("cancelled")

\* the synthesis of the entry raises an exception
SynthesisRaises(e) ==
    IF source = "fifththird" THEN FT_make_raises(e)
    ELSE IF source = "vanguard" THEN VG_make_raises(e, find_vanguard_accounts)
    ELSE WG_make_raises(e)

---------------------------------------------------------------------------
(* C4: a Fifth Third record fetched in a second session, that differs from a  *)
(* record imported into the journal only in the session id, produces no       *)
(* pending entry.                                                             *)
C4_StableKey ==
    (source = "fifththird" /\ session = 2 /\ JustPrepared) =>
        \A i \in DOMAIN entries :
            (/\ entries[i].transaction_id # None
             /\ \E m \in TransactionMetas :
                   /\ "fifththird_transaction_id" \in DOMAIN m
                   /\ m["fifththird_transaction_id"] # Get(entries[i].transaction_id)
                   /\ [m EXCEPT !["fifththird_transaction_id"] = Get(entries[i].transaction_id)]
                        = FT_meta(entries[i]))
                => ~HasResult(entries[i])

---------------------------------------------------------------------------
(* C5: a Vanguard record is not excluded because the journal holds a record   *)
(* of another account with the same sequenceNumber: in a run that does not    *)
(* fail, every entry whose (accountId, sequenceNumber) is not in the journal  *)
(* yields a pending entry.                                                    *)
PairInLedger(e) ==
    \E m \in TransactionMetas :
        /\ MetaGet(m, "vanguard_accountId") = e.accountId
        /\ MetaGet(m, "vanguard_sequenceNumber") = e.sequenceNumber

C5_UniqueKey ==
    (source = "vanguard" /\ JustPrepared /\ pc = "prepared") =>
        \A i \in DOMAIN entries : ~PairInLedger(entries[i]) => HasResult(entries[i])

---------------------------------------------------------------------------
(* C6: when the input holds the same record more than once, prepare emits at  *)
(* most one pending entry for it.                                             *)
SameRecord(e1, e2) ==
    IF source = "wegmans" THEN [e1 EXCEPT !.filename = 0] = [e2 EXCEPT !.filename = 0]
    ELSE [e1 EXCEPT !.filename = 0, !.line = 0] = [e2 EXCEPT !.filename = 0, !.line = 0]

C6_NoDuplicates ==
    JustPrepared =>
        \A i \in DOMAIN entries :
            KeyOf(entries[i]) # None =>
                Cardinality({j \in DOMAIN pending :
                               \E k \in DOMAIN entries :
                                  /\ SameRecord(entries[k], entries[i])
                                  /\ IsResultOf(pending[j], entries[k])}) <= 1

---------------------------------------------------------------------------
\* the raw record a pending ImportResult of a JSON-L source points back to
RawOf(p) == files[p.info.filename][p.info.line]

\* the pending ImportResults made from statement records (transactionCode "9999")
StatementResults ==
    {j \in DOMAIN pending : RawOf(pending[j]).transactionCode = Some("9999")}

(* C7: for a Fifth Third statement record with posting date D, the pending    *)
(* result and every balance assertion in it are dated D + 1, which is after   *)
(* every emitted transaction dated D.                                         *)
C7_BalanceDate ==
    source = "fifththird" =>
        \A j \in StatementResults :
            LET p == pending[j]
                day == Get(RawOf(p).postDate)
            IN  /\ p.date = Some(day + 1)
                /\ \A k \in DOMAIN p.entries :
                      /\ p.entries[k].type = "Balance"
                      /\ p.entries[k].date = day + 1
                      /\ \A j2 \in DOMAIN pending \ StatementResults :
                            \A k2 \in DOMAIN pending[j2].entries :
                               pending[j2].entries[k2].date = Some(day) =>
                                  p.entries[k].date > Get(pending[j2].entries[k2].date)

\* a statement record and a payment of the same day are both pending, and the
\* statement yields a balance assertion
C7_Witness ==
    /\ source = "fifththird"
    /\ \E j \in StatementResults :
          /\ pending[j].entries # <<>>
          /\ \E j2 \in DOMAIN pending \ StatementResults :
                pending[j2].entries[1].date = RawOf(pending[j]).postDate

---------------------------------------------------------------------------
LiabilityAccount == "Liabilities:Mortgage:FifthThird"
EscrowAccount == "Assets:FifthThird:Escrow"

\* the account and amount of every entry of an ImportResult, in order
AccountAmounts(p) ==
    [k \in DOMAIN p.entries |->
        [account |-> p.entries[k].account, amount |-> p.entries[k].amount]]

(* C8: a Fifth Third statement record yields exactly two balance assertions:  *)
(* one on the mortgage liability account for the negation of the record's     *)
(* principal amount, one on the escrow account for the escrow amount as given.*)
C8_BalanceContent ==
    source = "fifththird" =>
        \A j \in StatementResults :
            LET p == pending[j]
                principal == amt(RawOf(p).principalAmount)
                escrow == amt(RawOf(p).escrowAmount)
            IN  /\ principal # None
                /\ escrow # None
                /\ AccountAmounts(p) =
                      <<[account |-> LiabilityAccount, amount |-> Neg(Get(principal))],
                        [account |-> EscrowAccount, amount |-> Get(escrow)]>>

(* C8 as the code has it: a statement record yields only balance assertions;  *)
(* one on the liability account, for the negated principal amount, exactly    *)
(* when the record has a principal amount that is not zero; then one on the   *)
(* escrow account, for the escrow amount unchanged, exactly when the record   *)
(* has an escrow amount that is not zero.                                     *)
C8_BalanceContentWhenPresent ==
    source = "fifththird" =>
        \A j \in StatementResults :
            LET p == pending[j]
                raw == RawOf(p)
                liability ==
                    IF raw.principalAmount \notin {None, Some(0)}
                    THEN <<[account |-> LiabilityAccount,
                            amount |-> Neg(Get(amt(raw.principalAmount)))]>>
                    ELSE <<>>
                escrow ==
                    IF raw.escrowAmount \notin {None, Some(0)}
                    THEN <<[account |-> EscrowAccount,
                            amount |-> Get(amt(raw.escrowAmount))]>>
                    ELSE <<>>
            IN  /\ \A k \in DOMAIN p.entries : p.entries[k].type = "Balance"
                /\ AccountAmounts(p) = liability \o escrow

\* one statement with both balances is pending, and one that lacks a balance
C8_Witness ==
    /\ source = "fifththird"
    /\ \E j \in StatementResults : Len(pending[j].entries) = 2
    /\ \E j \in StatementResults : Len(pending[j].entries) < 2

---------------------------------------------------------------------------
\* the constructor has returned
Loaded == pc \in {"loaded", "prepared", "aborted"}

SortKey(e) == IF source = "fifththird" THEN e.posting_date ELSE e.sequenceNumber

\* the record of e was read after the record of f
ReadAfter(e, f) ==
    \/ e.filename > f.filename
    \/ e.filename = f.filename /\ e.line > f.line

\* e may stand before f: its key is smaller, or equal and e was read later
InOrder(e, f) ==
    (SortKey(e) # None /\ SortKey(f) # None) =>
        \/ Get(SortKey(e)) < Get(SortKey(f))
        \/ Get(SortKey(e)) = Get(SortKey(f)) /\ ReadAfter(e, f)

\* entries holds exactly one entry for every record of every file
EveryRecordOnce ==
    \A n \in DOMAIN files : \A l \in DOMAIN files[n] :
        Cardinality({i \in DOMAIN entries :
                        entries[i].filename = n /\ entries[i].line = l}) = 1

(* C9: after a Fifth Third or Vanguard load, of one file or of all the files  *)
(* of a directory, the entries are in ascending order of the key (posting     *)
(* date, sequence number), and entries with equal keys stand in the reverse   *)
(* of the order in which they were read.                                      *)
C9_Ordering ==
    (Loaded /\ source \in {"fifththird", "vanguard"}) =>
        /\ EveryRecordOnce
        /\ \A i, j \in DOMAIN entries : i < j => InOrder(entries[i], entries[j])

(* C9 as the code has it: the entries of each file are in ascending order of  *)
(* the key, equal keys in reverse read order; the entries of a directory are  *)
(* these per-file runs, one after the other in listing order.                 *)
C9_OrderingPerFile ==
    (Loaded /\ source \in {"fifththird", "vanguard"}) =>
        /\ EveryRecordOnce
        /\ \A i, j \in DOMAIN entries :
              i < j =>
                 /\ entries[i].filename <= entries[j].filename
                 /\ entries[i].filename = entries[j].filename =>
                       /\ SortKey(entries[i]) # None
                       /\ SortKey(entries[j]) # None
                       /\ InOrder(entries[i], entries[j])

\* a file was read out of order and with a tie, and the load reordered it
C9_Witness ==
    /\ Loaded
    /\ source \in {"fifththird", "vanguard"}
    /\ \E i, j \in DOMAIN entries :
          /\ i < j
          /\ entries[i].filename = entries[j].filename
          /\ \/ Get(SortKey(entries[i])) = Get(SortKey(entries[j]))
             \/ entries[i].line > entries[j].line

---------------------------------------------------------------------------
\* the text of a record cannot be decoded, or one of its fields is not of its type
Unreadable(r) == ~r.decodable \/ r.garbled # {}

\* a record is malformed: unreadable, or without a date, key or main amount
MalformedRecord(r) ==
    \/ Unreadable(r)
    \/ source = "fifththird" /\ (r.postDate = None \/ r.amount = None)
    \/ source = "vanguard" /\ (r.sequenceNumber = None \/ r.recordDate = None
                                  \/ r.netAmount = None)
    \/ source = "wegmans" /\ (r.timestamp = None \/ r.total = None)

MalformedFiles == {n \in DOMAIN files : \E l \in DOMAIN files[n] : MalformedRecord(files[n][l])}

\* a file the loader rejects: an undecodable text; for the JSON-L sources a
\* present date that is no date, for Fifth Third a present amount that is no
\* number, and a record without the sort key in a file of two or more records
RejectedFile(n) ==
    \/ \E l \in DOMAIN files[n] : ~files[n][l].decodable
    \/ /\ source = "fifththird"
       /\ \/ \E l \in DOMAIN files[n] :
                \E f \in files[n][l].garbled : files[n][l][f] # None
          \/ Len(files[n]) >= 2 /\ \E l \in DOMAIN files[n] : files[n][l].postDate = None
    \/ /\ source = "vanguard"
       /\ \/ \E l \in DOMAIN files[n] :
                \E f \in files[n][l].garbled \cap {"recordDate", "tradeDate"} :
                   files[n][l][f] # None
          \/ Len(files[n]) >= 2 /\ \E l \in DOMAIN files[n] : files[n][l].sequenceNumber = None

RejectedFiles == {n \in DOMAIN files : RejectedFile(n)}

\* no entry of file n is kept by the source or emitted as pending
NothingFrom(n) ==
    /\ \A i \in DOMAIN entries : entries[i].filename # n
    /\ IF source = "wegmans" THEN pending = <<>>
       ELSE \A j \in DOMAIN pending : pending[j].info.filename # n

\* the load failed with an error that names file n
FailedNaming(n) == pc = "failed" /\ error # None /\ Get(error).raised /\ Get(error).arg = n

\* the outcome of the constructor on input of which the files in bad are bad:
\* it fails at the first of them and nothing of any of them is kept
AllOrNothing(bad) ==
    bad # {} =>
        /\ FailedNaming(CHOOSE n \in bad : \A m \in bad : n <= m)
        /\ \A n \in bad : NothingFrom(n)

---------------------------------------------------------------------------
\* c cents is the value of so many thousandths rounded half-even to two places
IsHalfEven(c, mills) ==
    LET d == mills - 10 * c
    IN  \/ -5 < d /\ d < 5
        \/ d \in {-5, 5} /\ c % 2 = 0

\* the exact ratio has at most two decimal places
TwoPlacesRatio(r) == r.den > 0 /\ (100 * r.num) % r.den = 0

FT_amount_fields ==
    {"amount", "principalAmount", "escrowAmount", "interestAmount", "otherAmount"}

\* the number n of an emitted USD amount of the ImportResult p has two places and,
\* where the source rounds, is the rounded value of an amount of the record
RoundedAmount(n, p) ==
    IF source = "fifththird"
    THEN \E f \in FT_amount_fields :
            /\ RawOf(p)[f] # None
            /\ \/ IsHalfEven(n, Get(RawOf(p)[f]))
               \/ IsHalfEven(-n, Get(RawOf(p)[f]))
    ELSE n % 10 = 0

(* C11: every emitted monetary amount (posting units in USD, balance amounts, *)
(* per-unit cost and price) has at most two decimal places, and is the input  *)
(* value or the computed value rounded half-even to two places.               *)
C11_TwoDecimalRounding ==
    \A j \in DOMAIN pending : \A k \in DOMAIN pending[j].entries :
        LET p == pending[j]
            x == p.entries[k]
        IN  IF x.type = "Balance" THEN RoundedAmount(x.amount.number, p)
            ELSE \A i \in DOMAIN x.postings :
                    LET q == x.postings[i]
                    IN  /\ (q.units # None /\ Get(q.units).currency = "USD") =>
                              RoundedAmount(Get(q.units).number, p)
                        /\ q.cost # None => TwoPlacesRatio(Get(q.cost).number)
                        /\ q.price # None => TwoPlacesRatio(Get(q.price).number)

---------------------------------------------------------------------------
\* the pending ImportResults made from records that are not statements
TransactionResults == DOMAIN pending \ StatementResults

\* the account of the posting of each component of a payment
ComponentAccount ==
    [principalAmount |-> "Liabilities:Mortgage:FifthThird",
     interestAmount |-> "Expenses:House:Mortgage:Interest",
     escrowAmount |-> "Assets:FifthThird:Escrow",
     otherAmount |-> "Expenses:House:Mortgage:Other"]

\* the component is absent, zero, or rounds to 0.00
NoComponent(val) == val = None \/ IsHalfEven(0, Get(val))

(* C12: in every Fifth Third transaction every posting has a present amount   *)
(* that is not zero, and in the payment shape a component (principal,         *)
(* interest, escrow, other) that is absent, zero or rounds to 0.00 has no     *)
(* posting.                                                                   *)
C12_NoEmptyComponent ==
    source = "fifththird" =>
        \A j \in TransactionResults :
            LET p == pending[j]
                postings == p.entries[1].postings
            IN  /\ \A i \in DOMAIN postings :
                      /\ postings[i].units # None
                      /\ Get(postings[i].units).number # 0
                /\ RawOf(p).transactionCode # Some("5850") =>
                      \A f \in DOMAIN ComponentAccount :
                         NoComponent(RawOf(p)[f]) =>
                            \A i \in 2..Len(postings) :
                               postings[i].account # ComponentAccount[f]

---------------------------------------------------------------------------
\* the codes the dispatch of each adapter names
RuleCodes ==
    IF source = "fifththird" THEN {"9999", "5850"}
    ELSE {"5005", "7066", "7001", "BUY", "9558", "9555", "DTRF", "WOFF", "8037", "8035",
          "5010", "8015", "8112", "ROLL", "SCAP", "LCAP", "RLCP", "RSCP", "DIV", "RDIV",
          "RDDV", "CNVO", "CNVI", "SELE"}

CodeOf(e) == IF source = "fifththird" THEN e.transaction_code ELSE e.transactionCode

\* the code of the entry matches no rule
NoRule(e) == CodeOf(e) = None \/ Get(CodeOf(e)) \notin RuleCodes

\* the account is the placeholder account that asks for a review
IsFixme(account) ==
    IF source = "fifththird" THEN account = "Expenses:FIXME"
    ELSE account = <<"Expenses:FIXME">>

RawOfEntry(e) == files[e.filename][e.line]

\* the synthesis of a record whose code matches no rule fails: a Fifth Third
\* record without an amount (absent or zero); a Vanguard record of an account no
\* ledger account declares, or without price and without quantity while its
\* net amount is not zero
RejectedByDefault(r) ==
    IF source = "fifththird" THEN r.amount \in {None, Some(0)}
    ELSE \/ r.accountId \notin {Some("acct1"), Some("acct2")}
         \/ r.price \in {None, Some(0)} /\ r.netAmount # Some(0) /\ r.quantity = None

---------------------------------------------------------------------------
\* the ledger accounts that declare the vanguard_account_id of the record
DeclaredAccounts(r) ==
    {a.account : a \in {b \in journal_accounts :
                          /\ "vanguard_account_id" \in DOMAIN b.meta
                          /\ r.accountId = Some(b.meta.vanguard_account_id)}}

Unmapped(r) == DeclaredAccounts(r) = {}

(* C14: when a Vanguard entry whose key is not in the journal has an          *)
(* accountId that no ledger account declares, prepare stops with an error,    *)
(* whatever the transaction code; no ImportResult is produced for that entry  *)
(* or for any later entry, and every account derived from an accountId is     *)
(* the declared account of that accountId.                                    *)
C14_UnmappedFailsFast ==
    (JustPrepared /\ source = "vanguard") =>
        /\ \A n \in DOMAIN entries :
              (KeyAbsent(entries[n]) /\ Unmapped(RawOfEntry(entries[n]))) =>
                  /\ pc = "aborted"
                  /\ error # None
                  /\ \A m \in n..Len(entries) : ~HasResult(entries[m])
        /\ \A j \in DOMAIN pending :
              \A i \in DOMAIN pending[j].entries[1].postings :
                 LET account == pending[j].entries[1].postings[i].account
                 IN  Len(account) = 2 => account[1] \in DeclaredAccounts(RawOf(pending[j]))

\* a run stopped at a record of an unmapped account after emitting an earlier record
C14_Witness ==
    /\ source = "vanguard"
    /\ pc = "aborted"
    /\ \E n \in DOMAIN entries :
          /\ n > 1
          /\ Unmapped(RawOfEntry(entries[n]))
          /\ KeyAbsent(entries[n])
          /\ HasResult(entries[n - 1])
          /\ n < Len(entries) => ~HasResult(entries[n + 1])

---------------------------------------------------------------------------
\* the record states a unit price
PriceStated(r) == r.price \notin {None, Some(0)}

\* the record allows the ratio: a net amount that is not zero, a positive quantity
RatioAllowed(r) ==
    /\ r.netAmount \notin {None, Some(0)}
    /\ r.quantity # None
    /\ Get(r.quantity) > 0

\* the per-unit value v (a cost or a price) is derived from the record as specified
DerivedAsSpecified(v, r) ==
    IF PriceStated(r) THEN v.number = Dollars(Get(r.price))
    ELSE /\ RatioAllowed(r)
         /\ v.number = Ratio(Get(r.netAmount), Get(r.quantity))

\* every entry before entry n is skipped or has its result: entry n is reached
Reached(n) == \A m \in 1..(n - 1) : ~KeyAbsent(entries[m]) \/ HasResult(entries[m])

(* C15: the per-unit cost or price of a Vanguard posting is the stated unit   *)
(* price when the record states one; otherwise it is net_amount / quantity,   *)
(* and only for a record with a non-zero net amount and a positive quantity;  *)
(* no division by an absent or zero quantity is attempted: a record of a      *)
(* mapped account that states a price is always synthesized.                  *)
C15_CostBasis ==
    (JustPrepared /\ source = "vanguard") =>
        /\ \A j \in DOMAIN pending :
              LET q == pending[j].entries[1].postings[2]
              IN  /\ q.cost # None => DerivedAsSpecified(Get(q.cost), RawOf(pending[j]))
                  /\ q.price # None => DerivedAsSpecified(Get(q.price), RawOf(pending[j]))
        /\ \A n \in DOMAIN entries :
              LET r == RawOfEntry(entries[n])
              IN  (Reached(n) /\ KeyAbsent(entries[n]) /\ ~Unmapped(r) /\ PriceStated(r)) =>
                      HasResult(entries[n])

---------------------------------------------------------------------------
\* the loaded entry a pending ImportResult of a JSON-L source was made from
EntryOf(p) == entries[CHOOSE n \in DOMAIN entries : IsResultOf(p, entries[n])]

\* the fields of a canonical entry other than its provenance
AuditFields(e) == DOMAIN e \ {"filename", "line"}

\* the metadata key of a field: the field name under the prefix of the source
AuditKey(f) == IF source = "fifththird" THEN FT_meta_key[f] ELSE VG_meta_key[f]

\* meta holds the value of every field of fields under its key
Carries(meta, e, fields) ==
    \A f \in fields : AuditKey(f) \in DOMAIN meta /\ meta[AuditKey(f)] = Get(e[f])

\* the value of a Vanguard field is zero or the empty string
ZeroOrEmpty(e, f) ==
    IF f \in VG_number_fields THEN e[f] = Some(0)
    ELSE IF f \in VG_date_fields THEN FALSE
    ELSE e[f] = Some("")

(* C16: in every synthesized fifththird and vanguard transaction, every       *)
(* posting other than the source posting (the first) carries a metadata map   *)
(* that holds every non-absent field of the canonical entry except filename   *)
(* and line, under the prefix of the source.                                  *)
C16_AuditMetadata ==
    source \in {"fifththird", "vanguard"} =>
        \A j \in TransactionResults :
            LET e == EntryOf(pending[j])
                postings == pending[j].entries[1].postings
            IN  \A i \in 2..Len(postings) :
                   Carries(postings[i].meta, e, {f \in AuditFields(e) : e[f] # None})

(* C16 as the code has it: one posting of every synthesized transaction, the  *)
(* source posting (the first) for fifththird and the destination posting (the *)
(* second) for vanguard, carries a metadata map that holds exactly the fields *)
(* of the canonical entry, except filename and line, that are not absent and, *)
(* for vanguard, not zero and not empty, under the prefix of the source; the  *)
(* other postings carry no metadata.                                          *)
C16_AuditMetadataOnePosting ==
    source \in {"fifththird", "vanguard"} =>
        \A j \in TransactionResults :
            LET e == EntryOf(pending[j])
                postings == pending[j].entries[1].postings
                audited == IF source = "fifththird" THEN 1 ELSE 2
                kept == {f \in AuditFields(e) :
                           e[f] # None /\ (source = "vanguard" => ~ZeroOrEmpty(e, f))}
            IN  /\ Carries(postings[audited].meta, e, kept)
                /\ DOMAIN postings[audited].meta = {AuditKey(f) : f \in kept}
                /\ \A i \in DOMAIN postings \ {audited} : postings[i].meta = <<>>

\* a Vanguard record with a zero field is pending, and so is a payment with components
C16_Witness ==
    /\ source = "vanguard"
    /\ \E j \in TransactionResults :
          /\ \E f \in AuditFields(EntryOf(pending[j])) : ZeroOrEmpty(EntryOf(pending[j]), f)
          /\ pending[j].entries[1].postings[2].meta # <<>>

---------------------------------------------------------------------------
(* C17: every emitted transaction or balance assertion made from a record     *)
(* that has a key carries the key where the scan of the source finds it: the  *)
(* scan of a ledger that holds just that entry returns the key.               *)
C17_KeyRecoverable ==
    \A j \in DOMAIN pending : \A k \in DOMAIN pending[j].entries :
        LET e == EntryOf(pending[j])
        IN  KeyOf(e) # None =>
               Get(KeyOf(e)) \in get_existing_transaction_ids(source, <<pending[j].entries[k]>>)

---------------------------------------------------------------------------
\* the Wegmans order document a pending ImportResult was made from
OrderOf(p) ==
    files[CHOOSE n \in DOMAIN files :
             files[n][1].id = Some(p.entries[1].meta.wegmans_order_id)][1]

\* what an order item adds to the item total: its sub-total, that of its
\* replacement if it was removed, nothing if it was removed without replacement
Contribution(item) ==
    IF item.status # Some("removed") THEN item.sub_total
    ELSE IF item.child_order_item # None THEN Get(item.child_order_item).sub_total
    ELSE 0

RECURSIVE ItemTotal(_)
ItemTotal(items) ==
    IF items = <<>> THEN 0 ELSE Contribution(Head(items)) + ItemTotal(Tail(items))

TaxTotal(r) == IF r.tax_total = None THEN 0 ELSE Get(r.tax_total)

\* what the charge exceeds the items and the tax by
Residual(r) == Get(r.total) - (ItemTotal(Get(r.items)) + TaxTotal(r))

IsDiscrepancy(posting) == posting.account = <<"Expenses:Food:Groceries">>

IsBucket(posting) == Len(posting.account) = 2 /\ posting.account[1] = "Expenses:FIXME:"

RECURSIVE SumUnits(_)
SumUnits(postings) ==
    IF postings = <<>> THEN 0
    ELSE Get(Head(postings).units).number + SumUnits(Tail(postings))

(* C18: a Wegmans transaction has a discrepancy posting if and only if the    *)
(* charge total differs from the counted item sub-totals plus the tax total;  *)
(* its amount is exactly the difference; the bucket postings sum to the       *)
(* counted item sub-totals whether or not the totals reconcile.               *)
C18_Discrepancy ==
    source = "wegmans" =>
        \A j \in DOMAIN pending :
            LET r == OrderOf(pending[j])
                postings == pending[j].entries[1].postings
                found == SelectSeq(postings, IsDiscrepancy)
            IN  /\ Len(found) = (IF Residual(r) # 0 THEN 1 ELSE 0)
                /\ \A i \in DOMAIN found :
                      found[i].units = Some(Amount(Residual(r), "USD"))
                /\ SumUnits(SelectSeq(postings, IsBucket)) = ItemTotal(Get(r.items))

\* an order that reconciles and an order that does not are both pending
C18_Witness ==
    /\ source = "wegmans"
    /\ \E j \in DOMAIN pending :
          Residual(OrderOf(pending[j])) = 0 /\ Get(OrderOf(pending[j]).items) # <<>>
    /\ \E j \in DOMAIN pending :
          /\ Residual(OrderOf(pending[j])) # 0
          /\ \E i \in DOMAIN pending[j].entries[1].postings :
                IsDiscrepancy(pending[j].entries[1].postings[i])

---------------------------------------------------------------------------
\* the items of an order that are counted: an item that is not removed, the
\* replacement of a removed item that has one
CountedItems(r) ==
    LET items == Get(r.items)
    IN
    {items[i] : i \in {k \in DOMAIN items : items[k].status # Some("removed")}}
    \cup {Get(items[i].child_order_item) :
             i \in {k \in DOMAIN items : /\ items[k].status = Some("removed")
                                         /\ items[k].child_order_item # None}}

\* the name of the product contains the override keyword
IsKombucha(item) == item.store_product.name \in KombuchaNames

\* the first two category labels of an item, at most
FirstLabels(item) ==
    [i \in 1..(IF Len(item.store_product.categories) < 2
               THEN Len(item.store_product.categories) ELSE 2) |->
        item.store_product.categories[i]]

\* the bucket postings of all pending transactions
BucketPostings ==
    UNION {{pending[j].entries[1].postings[i] :
               i \in {k \in DOMAIN pending[j].entries[1].postings :
                        IsBucket(pending[j].entries[1].postings[k])}} :
           j \in DOMAIN pending}

\* the posting lists the item among the items of its bucket
ListedIn(item, posting) ==
    \E i \in DOMAIN posting.meta.wegmans_items :
        posting.meta.wegmans_items[i][2] = item.store_product.name

\* the counted items of all pending orders
PendingItems == UNION {CountedItems(OrderOf(pending[j])) : j \in DOMAIN pending}

\* the items a and b are booked under the same bucket key
SameBucket(a, b) ==
    \E pa, pb \in BucketPostings :
        ListedIn(a, pa) /\ ListedIn(b, pb) /\ pa.account = pb.account

(* C19: two items, of the same order or of different orders, are booked under *)
(* the same bucket key if and only if both product names contain Kombucha, or *)
(* neither does and their first two category labels are equal.                *)
C19_BucketAssignment ==
    source = "wegmans" =>
        \A a, b \in PendingItems :
            SameBucket(a, b) <=>
                \/ IsKombucha(a) /\ IsKombucha(b)
                \/ ~IsKombucha(a) /\ ~IsKombucha(b) /\ FirstLabels(a) = FirstLabels(b)

---------------------------------------------------------------------------
\* name and sub-total of the counted items of an order, in the order of the items
RECURSIVE CountedSummaries(_)
CountedSummaries(items) ==
    IF items = <<>> THEN <<>>
    ELSE LET item == Head(items)
             here == IF item.status # Some("removed")
                     THEN <<<<item.store_product.name, item.sub_total>>>>
                     ELSE IF item.child_order_item # None
                     THEN <<<<Get(item.child_order_item).store_product.name,
                              Get(item.child_order_item).sub_total>>>>
                     ELSE <<>>
         IN  here \o CountedSummaries(Tail(items))

\* name and sub-total of the items a bucket posting lists
ListedSummaries(posting) ==
    [i \in DOMAIN posting.meta.wegmans_items |->
        <<posting.meta.wegmans_items[i][2], posting.meta.wegmans_items[i][3]>>]

RECURSIVE SumListed(_)
SumListed(summaries) ==
    IF summaries = <<>> THEN 0 ELSE Head(summaries)[2] + SumListed(Tail(summaries))

\* the bucket postings of a transaction, in the order of the postings
Buckets(p) == SelectSeq(p.entries[1].postings, IsBucket)

\* how often x occurs among the items the postings list
RECURSIVE TimesListed(_, _)
TimesListed(x, postings) ==
    IF postings = <<>> THEN 0
    ELSE Cardinality({i \in DOMAIN ListedSummaries(Head(postings)) :
                         ListedSummaries(Head(postings))[i] = x})
         + TimesListed(x, Tail(postings))

TimesCounted(x, items) ==
    Cardinality({i \in DOMAIN CountedSummaries(items) : CountedSummaries(items)[i] = x})

\* an item removed without a replacement
Dropped(item) == item.status = Some("removed") /\ item.child_order_item = None

(* C20: in every Wegmans transaction the bucket postings partition the        *)
(* counted items: each counted item (a non-removed item, or the replacement   *)
(* of a removed one) is listed in exactly one bucket posting, nothing else is *)
(* listed, no two bucket postings share a key, no bucket posting is empty,    *)
(* each bucket amount is the sum of the sub-totals it lists, and the bucket   *)
(* amounts sum to the item total.                                             *)
C20_BucketPartition ==
    source = "wegmans" =>
        \A j \in DOMAIN pending :
            LET items == Get(OrderOf(pending[j]).items)
                buckets == Buckets(pending[j])
                listed == UNION {Range(ListedSummaries(buckets[i])) : i \in DOMAIN buckets}
            IN  /\ \A x \in listed \cup Range(CountedSummaries(items)) :
                       TimesListed(x, buckets) = TimesCounted(x, items)
                /\ \A a, b \in DOMAIN buckets :
                       buckets[a].account = buckets[b].account => a = b
                /\ \A i \in DOMAIN buckets :
                       /\ buckets[i].meta.wegmans_items # <<>>
                       /\ buckets[i].units =
                              Some(Amount(SumListed(ListedSummaries(buckets[i])), "USD"))
                /\ SumUnits(buckets) = ItemTotal(items)

\* a transaction is pending for an order with an item that was dropped, an
\* item that was replaced and an item that was kept, booked in two buckets
C20_Witness ==
    /\ source = "wegmans"
    /\ \E j \in DOMAIN pending :
           LET items == Get(OrderOf(pending[j]).items)
           IN  /\ \E i \in DOMAIN items : Dropped(items[i])
               /\ \E i \in DOMAIN items : /\ items[i].status = Some("removed")
                                          /\ items[i].child_order_item # None
               /\ \E i \in DOMAIN items : items[i].status # Some("removed")
               /\ Len(Buckets(pending[j])) = 2

---------------------------------------------------------------------------
IsCharge(posting) == posting.account = <<"Expenses:FIXME:Charge">>

IsTax(posting) == posting.account = <<"Expenses:FIXME:Tax">>

---------------------------------------------------------------------------
\* the codes of a long-term and of a short-term capital gain
LongTermCodes == {"8035", "LCAP"}

ShortTermCodes == {"8037", "SCAP"}

\* the accounts the postings of a transaction are booked to
AccountsOf(p) ==
    {p.entries[1].postings[i].account : i \in DOMAIN p.entries[1].postings}

GainLT == <<account_mappings.Income_GainLT>>

GainST == <<account_mappings.Income_GainST>>

(* C22: a Vanguard record with a long-term gain code (8035, LCAP) is booked   *)
(* against the long-term gain account and not the short-term one, a record    *)
(* with a short-term gain code (8037, SCAP) against the short-term gain       *)
(* account and not the long-term one, and a transaction narrated "Gain (LT)"  *)
(* or "Gain (ST)" is never booked against the gain account of the other term. *)
C22_GainAccounts ==
    source = "vanguard" =>
        \A j \in DOMAIN pending :
            LET code == EntryOf(pending[j]).transactionCode
                accounts == AccountsOf(pending[j])
                narration == pending[j].entries[1].narration
            IN  /\ (code # None /\ Get(code) \in LongTermCodes)
                       => GainLT \in accounts /\ GainST \notin accounts
                /\ (code # None /\ Get(code) \in ShortTermCodes)
                       => GainST \in accounts /\ GainLT \notin accounts
                /\ narration = <<"Gain (LT)">> => GainST \notin accounts
                /\ narration = <<"Gain (ST)">> => GainLT \notin accounts

====
